---------------------------- MODULE Spec2Model ----------------------------
(***************************************************************************)
(* A model of postfile (src/postfile.go): an HTTP handler that saves the   *)
(* body of every POST request to a new file of the output directory.      *)
(*                                                                         *)
(* The state is the output directory (names and the files behind them),   *)
(* the process-wide mutex LOCK, and, per request, the position of its     *)
(* handler and the handler's local variables.  The actions are the steps  *)
(* of handle and openFile between two accesses to shared state, and the   *)
(* things the environment does: other processes creating and removing     *)
(* files, failing system calls, a client that goes away.                  *)
(*                                                                         *)
(* main is modelled from the choice of its listener on: its flags and      *)
(* local variables, the file at the unix socket's path, the goroutine     *)
(* that waits for an interrupt, and how the process ends.  The handlers    *)
(* are checked with main serving, main with no request in flight.         *)
(***************************************************************************)
EXTENDS Integers, Sequences, FiniteSets, TLC

(***************************************************************************)
(* Bounds of the model.                                                    *)
(***************************************************************************)
\* Number of requests the server receives.
NumReqs == 2
\* Longest request body, in bytes.
MaxBody == 2
\* Most bytes one Read of the body returns.
MaxChunk == 2
\* Most existence checks one openFile makes.
MaxNum == 3
\* Most operations other processes make on the output directory.
MaxExt == 1
\* Most connections the listener accepts.
MaxConns == 2
\* Most interrupt signals the process is sent.
MaxSignals == 2

(***************************************************************************)
(* Program constants.                                                      *)
(***************************************************************************)
\* http.StatusMethodNotAllowed
StatusMethodNotAllowed == 405
\* http.StatusInternalServerError
StatusInternalServerError == 500
\* The status of a response written without WriteHeader.
StatusOK == 200
\* The width of the number in a name, "%06v".
NumWidth == 6

(***************************************************************************)
(* Values.                                                                 *)
(***************************************************************************)
Reqs == 1..NumReqs

MethodPost == "POST"

Methods == {MethodPost, "GET"}

\* r.RemoteAddr of the requests.
Remotes == {"10.0.0.1:5000"}

\* r.URL.Path of the requests, as sequences of characters.  The first two
\* are different paths that makeName flattens to the same text.
Paths ==
    { <<"/", "a", "/", "b">>,
      <<"/", "a", "_", "b">>,
      <<"/", "c">> }

\* The p-th byte a client sends: bodies are the prefixes of one stream of
\* pairwise different bytes, so that an order or an offset shows.
ByteAt(p) == p

Bodies == { [p \in 1..k |-> ByteAt(p)] : k \in 0..MaxBody }

\* The requests the model draws from: a POST of every path with every
\* body, and a request of another method for every path, with a body that
\* a handler which failed to reject it would write.
Requests ==
    [method : {MethodPost}, remote : Remotes, path : Paths, body : Bodies]
        \cup [method : Methods \ {MethodPost}, remote : Remotes, path : Paths,
              body : {<<ByteAt(1)>>}]

\* The request of a handler that has not been called yet.
NoReq == [method |-> "", remote |-> "", path |-> <<>>, body |-> <<>>]

\* No response written yet.
NoResp == [status |-> 0, body |-> ""]

Min(a, b) == IF a < b THEN a ELSE b

(***************************************************************************)
(* Text: fmt.Sprintf, strings and path/filepath, on sequences of           *)
(* one-character strings; Str turns such a sequence into a string.         *)
(***************************************************************************)
RECURSIVE Str(_)
Str(s) == IF s = <<>> THEN "" ELSE Head(s) \o Str(Tail(s))

Digit(d) ==
    CASE d = 0 -> "0" [] d = 1 -> "1" [] d = 2 -> "2" [] d = 3 -> "3"
      [] d = 4 -> "4" [] d = 5 -> "5" [] d = 6 -> "6" [] d = 7 -> "7"
      [] d = 8 -> "8" [] d = 9 -> "9"

\* fmt's %v of a non-negative integer: its decimal digits.
RECURSIVE Decimal(_)
Decimal(n) == IF n < 10 THEN Digit(n) ELSE Decimal(n \div 10) \o Digit(n % 10)

\* The number of decimal digits of n.
RECURSIVE NumDigits(_)
NumDigits(n) == IF n < 10 THEN 1 ELSE 1 + NumDigits(n \div 10)

RECURSIVE Zeros(_)
Zeros(k) == IF k <= 0 THEN "" ELSE "0" \o Zeros(k - 1)

\* fmt's %06v of a non-negative integer: padded with zeros to six digits,
\* and longer when the number has more.
Pad6(n) == Zeros(NumWidth - NumDigits(n)) \o Decimal(n)

\* The elements of a path: the texts between its separators.
RECURSIVE Split(_, _, _)
Split(s, cur, acc) ==
    IF s = <<>> THEN Append(acc, cur)
    ELSE IF Head(s) = "/" THEN Split(Tail(s), <<>>, Append(acc, cur))
    ELSE Split(Tail(s), Append(cur, Head(s)), acc)

\* filepath.Clean's pass over the elements: empty and "." elements go, and
\* ".." removes the element before it (nothing above the root).
RECURSIVE CleanElems(_, _, _)
CleanElems(elems, rooted, out) ==
    IF elems = <<>> THEN out
    ELSE LET e == Head(elems)
             rest == Tail(elems)
         IN  IF e = <<>> \/ e = <<".">> THEN CleanElems(rest, rooted, out)
             ELSE IF e = <<".", ".">> THEN
                 IF out # <<>> /\ out[Len(out)] # <<".", ".">>
                 THEN CleanElems(rest, rooted, SubSeq(out, 1, Len(out) - 1))
                 ELSE IF rooted THEN CleanElems(rest, rooted, out)
                 ELSE CleanElems(rest, rooted, Append(out, e))
             ELSE CleanElems(rest, rooted, Append(out, e))

RECURSIVE Join(_)
Join(elems) ==
    IF elems = <<>> THEN <<>>
    ELSE IF Len(elems) = 1 THEN elems[1]
    ELSE elems[1] \o <<"/">> \o Join(Tail(elems))

\* filepath.Clean
Clean(path) ==
    LET rooted == path # <<>> /\ path[1] = "/"
        body == Join(CleanElems(Split(path, <<>>, <<>>), rooted, <<>>))
    IN  IF rooted THEN <<"/">> \o body
        ELSE IF body = <<>> THEN <<".">>
        ELSE body

\* strings.TrimPrefix(s, "/")
TrimSlash(s) == IF s # <<>> /\ s[1] = "/" THEN Tail(s) ELSE s

\* strings.Replace(s, "/", "_", -1)
Flatten(s) == [k \in 1..Len(s) |-> IF s[k] = "/" THEN "_" ELSE s[k]]

\* The path's part of a name.
Sanitize(path) == Str(Flatten(TrimSlash(Clean(path))))

\* makeName: the name for a request and a number.
makeName(r, num) == r.remote \o "_" \o Sanitize(r.path) \o "_" \o Pad6(num)


(***************************************************************************)
(* The state.                                                              *)
(***************************************************************************)
VARIABLES
    LOCK,       \* the mutex: the request holding it, 0 when it is free
    dir,        \* the output directory: a function from the names in it to files
    data,       \* the bytes of every file, by file
    pc,         \* where each request's handler is
    req,        \* each request: method, remote address, path, body
    num,        \* openFile's num
    err,        \* the last error openFile saw
    name,       \* openFile's name
    f,          \* the file handle each handler holds open, 0 for none
    off,        \* how many bytes of the body io.Copy has read
    n,          \* how many bytes io.Copy has written
    resp,       \* the response: the status, and the text handle writes or hands to http.Error
    ext,        \* how many operations other processes have made on the directory
    prior,      \* history: the requests that had ended when this one arrived
    deleted,    \* history: the names other processes have removed
    statFailed  \* history: an existence check failed other than by "not exist"

\* The variables of handle and openFile and of the output directory.
hvars ==
    <<LOCK, dir, data, pc, req, num, err, name, f, off, n, resp, ext, prior,
      deleted, statFailed>>

\* main: its flags, its local variables, the socket file and the signal
\* handler.
VARIABLES
    plaintext,      \* the flag -http
    serveFCGI,      \* the flag -fcgi
    mainPC,         \* where main is
    l,              \* main's l: the listener, "nil" for none
    mainErr,        \* main's err, declared with opwd
    pairErr,        \* the err declared in the block that loads the key pair
    sock,           \* the file at the socket's path: "none", "stale", "bound"
    unlinkOnClose,  \* SetUnlinkOnClose(true) was called on the listener
    notify,         \* signal.Notify(ch, os.Interrupt) was called
    hook,           \* where the goroutine that receives from ch is
    exit,           \* how the process ended, "" while it runs
    addrCalled,     \* l.Addr() was called
    accepted,       \* how many connections the listener has accepted
    signals         \* how many interrupt signals the process was sent

mvars ==
    <<plaintext, serveFCGI, mainPC, l, mainErr, pairErr, sock, unlinkOnClose,
      notify, hook, exit, addrCalled, accepted, signals>>

vars == <<hvars, mvars>>

\* Files: request i's OpenFile creates file i, the k-th file another process
\* creates is file NumReqs + k.
Files == 1..(NumReqs + MaxExt)

\* What another process writes into a file it creates.
ExtData == <<0>>

\* The names the requests can probe.
AllNames == { makeName(r, k) : r \in Requests, k \in 0..MaxNum }

Terminal == {"Rejected", "OpenFailed", "Failed", "Completed"}

Init ==
    /\ LOCK = 0
    /\ dir = <<>>
    /\ data = [x \in Files |-> <<>>]
    /\ pc = [i \in Reqs |-> "Idle"]
    /\ req = [i \in Reqs |-> NoReq]
    /\ num = [i \in Reqs |-> 0]
    /\ err = [i \in Reqs |-> "nil"]
    /\ name = [i \in Reqs |-> ""]
    /\ f = [i \in Reqs |-> 0]
    /\ off = [i \in Reqs |-> 0]
    /\ n = [i \in Reqs |-> 0]
    /\ resp = [i \in Reqs |-> NoResp]
    /\ ext = 0
    /\ prior = [i \in Reqs |-> {}]
    /\ deleted = {}
    /\ statFailed = FALSE

(***************************************************************************)
(* The file system calls.                                                  *)
(***************************************************************************)
\* os.Stat(nm): nil when the name exists, an error os.IsNotExist accepts
\* when it does not.
Stat(nm) == IF nm \in DOMAIN dir THEN "nil" ELSE "ENOENT"

\* os.OpenFile without O_EXCL: an existing file is opened as it is.
OpenFile_NoExcl(nm, i) ==
    IF nm \in DOMAIN dir
    THEN [err |-> "nil", file |-> dir[nm], dir |-> dir, data |-> data]
    ELSE [err |-> "nil", file |-> i, dir |-> dir @@ (nm :> i),
          data |-> [data EXCEPT ![i] = <<>>]]

\* os.OpenFile(nm, O_WRONLY|O_APPEND|O_CREATE|O_EXCL, 0600) by request i:
\* fails when the name exists, creates an empty file otherwise.
OpenFile(nm, i) ==
    IF nm \in DOMAIN dir
    THEN [err |-> "EEXIST", file |-> 0, dir |-> dir, data |-> data]
    ELSE [err |-> "nil", file |-> i, dir |-> dir @@ (nm :> i),
          data |-> [data EXCEPT ![i] = <<>>]]

\* A write at the start of the file instead of its end.
FileWrite_AtStart(d, chunk) == chunk \o d

\* A write to a file opened with O_APPEND: the bytes go to its end.
FileWrite(d, chunk) == d \o chunk

(***************************************************************************)
(* handle and openFile.                                                    *)
(***************************************************************************)
\* The server calls handle for the next request.
Receive(i) ==
    /\ pc[i] = "Idle"
    /\ IF i = 1 THEN TRUE ELSE pc[i - 1] # "Idle"
    /\ \E r \in Requests : req' = [req EXCEPT ![i] = r]
    /\ pc' = [pc EXCEPT ![i] = "Received"]
    /\ prior' = [prior EXCEPT ![i] = { j \in Reqs : pc[j] \in Terminal }]
    /\ UNCHANGED <<LOCK, dir, data, num, err, name, f, off, n, resp, ext,
                   deleted, statFailed>>
    /\ UNCHANGED mvars

\* A handler that accepts every method.
MethodAllowed_Any(r) == TRUE

\* http.MethodPost != r.Method is what handle rejects.
MethodAllowed(r) == r.method = MethodPost

\* handle, up to the call of openFile.
MethodCheck(i) ==
    /\ pc[i] = "Received"
    /\ IF MethodAllowed(req[i])
       THEN /\ pc' = [pc EXCEPT ![i] = "MethodChecked"]
            /\ resp' = resp
       ELSE /\ pc' = [pc EXCEPT ![i] = "Rejected"]
            /\ resp' = [resp EXCEPT ![i] =
                   [status |-> StatusMethodNotAllowed, body |-> "Invalid method"]]
    /\ UNCHANGED <<LOCK, dir, data, req, num, err, name, f, off, n, ext,
                   prior, deleted, statFailed>>
    /\ UNCHANGED mvars

\* A Lock() that does not wait.
CanLock_NoWait == TRUE

\* LOCK.Lock() returns when the mutex is free.
CanLock == LOCK = 0

\* openFile: LOCK.Lock(), the declarations and the loop's init statement.
Lock(i) ==
    /\ pc[i] = "MethodChecked"
    /\ CanLock
    /\ LOCK' = i
    /\ num' = [num EXCEPT ![i] = 0]
    /\ err' = [err EXCEPT ![i] = "nil"]
    /\ name' = [name EXCEPT ![i] = makeName(req[i], 0)]
    /\ pc' = [pc EXCEPT ![i] = "Probing"]
    /\ UNCHANGED <<dir, data, req, f, off, n, resp, ext, prior, deleted,
                   statFailed>>
    /\ UNCHANGED mvars

\* The loop's condition: nil == err || !os.IsNotExist(err).
LoopCond(e) == e = "nil" \/ e # "ENOENT"

\* One turn of the loop with e the result of os.Stat(name): the body, the
\* post statement, and the condition that decides whether another follows.
ProbeStep(i, e) ==
    /\ pc[i] = "Probing"
    /\ num[i] < MaxNum
    /\ err' = [err EXCEPT ![i] = e]
    /\ num' = [num EXCEPT ![i] = @ + 1]
    /\ name' = [name EXCEPT ![i] = makeName(req[i], num[i] + 1)]
    /\ pc' = [pc EXCEPT ![i] = IF LoopCond(e) THEN "Probing" ELSE "NameAllocated"]
    /\ UNCHANGED <<LOCK, dir, data, req, f, off, n, resp, ext, prior, deleted>>
    /\ UNCHANGED mvars

Probe(i) ==
    /\ ProbeStep(i, Stat(name[i]))
    /\ UNCHANGED statFailed

\* os.Stat fails for another reason (no permission, an I/O error).
ProbeErr(i) ==
    /\ ProbeStep(i, "EIO")
    /\ statFailed' = TRUE

\* openFile returning with the mutex still held.
LockAfterOpenFile_Held(i) == i

\* The mutex once openFile has returned: the deferred LOCK.Unlock().
LockAfterOpenFile(i) == 0

\* The end of openFile with o the result of os.OpenFile, and handle's test
\* of the error.
OpenStep(i, o) ==
    /\ pc[i] = "NameAllocated"
    /\ dir' = o.dir
    /\ data' = o.data
    /\ err' = [err EXCEPT ![i] = o.err]
    /\ f' = [f EXCEPT ![i] = o.file]
    /\ LOCK' = LockAfterOpenFile(i)
    /\ IF o.err = "nil"
       THEN /\ pc' = [pc EXCEPT ![i] = "FileOpened"]
            /\ resp' = resp
       ELSE /\ pc' = [pc EXCEPT ![i] = "OpenFailed"]
            /\ resp' = [resp EXCEPT ![i] =
                   [status |-> StatusInternalServerError, body |-> "open"]]
    /\ UNCHANGED <<req, num, name, off, n, ext, prior, deleted, statFailed>>
    /\ UNCHANGED mvars

Open(i) == OpenStep(i, OpenFile(name[i], i))

\* os.OpenFile fails for another reason (no permission, no space, no
\* descriptors).
OpenErr(i) ==
    OpenStep(i, [err |-> "EACCES", file |-> 0, dir |-> dir, data |-> data])

\* A handle that calls openFile again once it has a file.
BeginCopy_Reopen(i) ==
    /\ pc[i] = "FileOpened"
    /\ pc' = [pc EXCEPT ![i] = "NameAllocated"]
    /\ UNCHANGED <<LOCK, dir, data, req, num, err, name, f, off, n, resp, ext,
                   prior, deleted, statFailed>>
    /\ UNCHANGED mvars

\* handle: defer f.Close() and the call of io.Copy.
BeginCopy(i) ==
    /\ pc[i] = "FileOpened"
    /\ pc' = [pc EXCEPT ![i] = "Streaming"]
    /\ UNCHANGED <<LOCK, dir, data, req, num, err, name, f, off, n, resp, ext,
                   prior, deleted, statFailed>>
    /\ UNCHANGED mvars

\* The bytes the body has not given yet.
Remaining(i) == Len(req[i].body) - off[i]

\* The next c bytes of the body.
Chunk(i, c) == SubSeq(req[i].body, off[i] + 1, off[i] + c)

\* io.Copy: one Read of c bytes and the Write of them.
CopyChunk(i) ==
    /\ pc[i] = "Streaming"
    /\ \E c \in 1..Min(MaxChunk, Remaining(i)) :
        /\ data' = [data EXCEPT ![f[i]] = FileWrite(@, Chunk(i, c))]
        /\ off' = [off EXCEPT ![i] = @ + c]
        /\ n' = [n EXCEPT ![i] = @ + c]
    /\ UNCHANGED <<LOCK, dir, pc, req, num, err, name, f, resp, ext, prior,
                   deleted, statFailed>>
    /\ UNCHANGED mvars

\* The response of a request all of whose body was copied: the count.
Written(i) == [status |-> StatusOK, body |-> Decimal(n[i])]

\* io.Copy: Read returns io.EOF; handle writes the count and returns, and
\* the deferred f.Close() runs.
CopyEOF(i) ==
    /\ pc[i] = "Streaming"
    /\ Remaining(i) = 0
    /\ pc' = [pc EXCEPT ![i] = "Completed"]
    /\ resp' = [resp EXCEPT ![i] = Written(i)]
    /\ f' = [f EXCEPT ![i] = 0]
    /\ UNCHANGED <<LOCK, dir, data, req, num, err, name, off, n, ext, prior,
                   deleted, statFailed>>
    /\ UNCHANGED mvars

\* handle after io.Copy returned an error, and the deferred f.Close().
CopyFailed(i) ==
    /\ pc' = [pc EXCEPT ![i] = "Failed"]
    /\ resp' = [resp EXCEPT ![i] =
           [status |-> StatusInternalServerError, body |-> "write"]]
    /\ f' = [f EXCEPT ![i] = 0]

\* io.Copy: Read fails (the client went away).
CopyReadErr(i) ==
    /\ pc[i] = "Streaming"
    /\ CopyFailed(i)
    /\ UNCHANGED <<LOCK, dir, data, req, num, err, name, off, n, ext, prior,
                   deleted, statFailed>>
    /\ UNCHANGED mvars

\* io.Copy: Read returns c bytes and Write fails after k of them.
CopyWriteErr(i) ==
    /\ pc[i] = "Streaming"
    /\ \E c \in 1..Min(MaxChunk, Remaining(i)) : \E k \in 0..(c - 1) :
        /\ data' = [data EXCEPT ![f[i]] = FileWrite(@, Chunk(i, k))]
        /\ off' = [off EXCEPT ![i] = @ + c]
        /\ n' = [n EXCEPT ![i] = @ + k]
    /\ CopyFailed(i)
    /\ UNCHANGED <<LOCK, dir, req, num, err, name, ext, prior, deleted,
                   statFailed>>
    /\ UNCHANGED mvars

(***************************************************************************)
(* Other processes working in the output directory.                        *)
(***************************************************************************)
\* Another process creates a file.
ExtCreate ==
    /\ ext < MaxExt
    /\ \E nm \in AllNames \ DOMAIN dir :
        /\ dir' = dir @@ (nm :> (NumReqs + ext + 1))
        /\ data' = [data EXCEPT ![NumReqs + ext + 1] = ExtData]
    /\ ext' = ext + 1
    /\ UNCHANGED <<LOCK, pc, req, num, err, name, f, off, n, resp, prior,
                   deleted, statFailed>>
    /\ UNCHANGED mvars

\* Another process removes a file; a handle open on it stays usable.
ExtDelete ==
    /\ ext < MaxExt
    /\ \E nm \in DOMAIN dir :
        /\ dir' = [x \in DOMAIN dir \ {nm} |-> dir[x]]
        /\ deleted' = deleted \cup {nm}
    /\ ext' = ext + 1
    /\ UNCHANGED <<LOCK, data, pc, req, num, err, name, f, off, n, resp,
                   prior, statFailed>>
    /\ UNCHANGED mvars

(***************************************************************************)
(* main: the choice of a listener, the socket file, the signal handler,    *)
(* and serving.                                                            *)
(***************************************************************************)
\* main at "Come up with a TLS or plaintext listener": the flags are
\* parsed, main's err is nil (os.Getwd succeeded, or main had ended), and
\* a socket file left by an earlier run may be at the socket's path.
MainInit ==
    /\ plaintext \in BOOLEAN
    /\ serveFCGI \in BOOLEAN
    /\ mainPC = "Select"
    /\ l = "nil"
    /\ mainErr = "nil"
    /\ pairErr = "nil"
    /\ sock \in {"none", "stale"}
    /\ unlinkOnClose = FALSE
    /\ notify = FALSE
    /\ hook = "none"
    /\ exit = ""
    /\ addrCalled = FALSE
    /\ accepted = 0
    /\ signals = 0

\* The process while the handlers run: started with -http, serving.
MainServing ==
    /\ plaintext = TRUE
    /\ serveFCGI = FALSE
    /\ mainPC = "Serving"
    /\ l = "tcp"
    /\ mainErr = "nil"
    /\ pairErr = "nil"
    /\ sock = "none"
    /\ unlinkOnClose = FALSE
    /\ notify = FALSE
    /\ hook = "none"
    /\ exit = ""
    /\ addrCalled = TRUE
    /\ accepted = 0
    /\ signals = 0

\* log.Fatalf, a panic or a signal's default action: the process ends.
\* Nothing closes the listener and nothing touches the socket file.
Ends(reason) ==
    /\ mainPC' = "Exited"
    /\ exit' = reason

\* What net.Listen("tcp", *laddr) and tls.Listen can return.
ListenResults == {"nil", "EADDRINUSE"}

\* What net.Listen("unix", *laddr) can return: bind fails on a path at
\* which a file exists, and can fail for other reasons.
UnixListenResults == IF sock # "none" THEN {"EADDRINUSE"} ELSE {"nil", "EACCES"}

\* What a listen call leaves in l.
Listener(e, kind) == IF e = "nil" THEN kind ELSE "nil"

\* -http: l, err = net.Listen("tcp", *laddr).
ListenPlain ==
    /\ mainPC = "Select" /\ plaintext
    /\ \E e \in ListenResults :
        /\ mainErr' = e
        /\ l' = Listener(e, "tcp")
    /\ mainPC' = "Check"
    /\ UNCHANGED <<plaintext, serveFCGI, pairErr, sock, unlinkOnClose, notify,
                   hook, exit, addrCalled, accepted, signals>>
    /\ UNCHANGED hvars

\* -fcgi: l, err = net.Listen("unix", *laddr), and the log.Fatalf that
\* follows a failure.
ListenUnix ==
    /\ mainPC = "Select" /\ ~plaintext /\ serveFCGI
    /\ \E e \in UnixListenResults :
        /\ mainErr' = e
        /\ l' = Listener(e, "unix")
        /\ IF e = "nil"
           THEN /\ sock' = "bound"
                /\ mainPC' = "Listened"
                /\ exit' = exit
           ELSE /\ sock' = sock
                /\ Ends("Unable to listen")
    /\ UNCHANGED <<plaintext, serveFCGI, pairErr, unlinkOnClose, notify, hook,
                   addrCalled, accepted, signals>>
    /\ UNCHANGED hvars

\* -fcgi: ul.SetUnlinkOnClose(true), make(chan os.Signal) and the go
\* statement.
StartHook ==
    /\ mainPC = "Listened"
    /\ unlinkOnClose' = TRUE
    /\ hook' = "started"
    /\ mainPC' = "Notify"
    /\ UNCHANGED <<plaintext, serveFCGI, l, mainErr, pairErr, sock, notify,
                   exit, addrCalled, accepted, signals>>
    /\ UNCHANGED hvars

\* -fcgi: signal.Notify(ch, os.Interrupt).
Notify ==
    /\ mainPC = "Notify"
    /\ notify' = TRUE
    /\ mainPC' = "Check"
    /\ UNCHANGED <<plaintext, serveFCGI, l, mainErr, pairErr, sock,
                   unlinkOnClose, hook, exit, addrCalled, accepted, signals>>
    /\ UNCHANGED hvars

\* Neither flag: pair, err := tls.LoadX509KeyPair(*cert, *key), which
\* declares an err of the block, and the log.Fatalf that follows a failure.
LoadPair ==
    /\ mainPC = "Select" /\ ~plaintext /\ ~serveFCGI
    /\ \E e \in {"nil", "ENOENT"} :
        /\ pairErr' = e
        /\ IF e = "nil"
           THEN mainPC' = "ListenTLS" /\ exit' = exit
           ELSE Ends("Unable to load keypair")
    /\ UNCHANGED <<plaintext, serveFCGI, l, mainErr, sock, unlinkOnClose,
                   notify, hook, addrCalled, accepted, signals>>
    /\ UNCHANGED hvars

\* Neither flag: l, err = tls.Listen("tcp", *laddr, ...).  The err assigned
\* is the one the block declared with pair; main's err keeps its value.
ListenTLS ==
    /\ mainPC = "ListenTLS"
    /\ \E e \in ListenResults :
        /\ pairErr' = e
        /\ mainErr' = mainErr
        /\ l' = Listener(e, "tls")
    /\ mainPC' = "Check"
    /\ UNCHANGED <<plaintext, serveFCGI, sock, unlinkOnClose, notify, hook,
                   exit, addrCalled, accepted, signals>>
    /\ UNCHANGED hvars

\* if nil != err { log.Fatalf("Unable to listen on ...") }
CheckErr ==
    /\ mainPC = "Check"
    /\ IF mainErr # "nil"
       THEN Ends("Unable to listen on")
       ELSE mainPC' = "Log" /\ exit' = exit
    /\ UNCHANGED <<plaintext, serveFCGI, l, mainErr, pairErr, sock,
                   unlinkOnClose, notify, hook, addrCalled, accepted, signals>>
    /\ UNCHANGED hvars

\* log.Printf("Listening for requests on %v", l.Addr()): the call of a
\* method of a nil l panics.
LogAddr ==
    /\ mainPC = "Log"
    /\ addrCalled' = TRUE
    /\ IF l = "nil"
       THEN Ends("panic")
       ELSE mainPC' = "Serving" /\ exit' = exit
    /\ UNCHANGED <<plaintext, serveFCGI, l, mainErr, pairErr, sock,
                   unlinkOnClose, notify, hook, accepted, signals>>
    /\ UNCHANGED hvars

\* fcgi.Serve or http.Serve: l.Accept() returns a connection.
Accept ==
    /\ mainPC = "Serving"
    /\ accepted < MaxConns
    /\ accepted' = accepted + 1
    /\ UNCHANGED <<plaintext, serveFCGI, mainPC, l, mainErr, pairErr, sock,
                   unlinkOnClose, notify, hook, exit, addrCalled, signals>>
    /\ UNCHANGED hvars

\* fcgi.Serve or http.Serve: l.Accept() returns an error, Serve returns it,
\* log.Fatalf("Error: %v", ...).  fcgi.Serve does not close the listener
\* it is given and main does not either, so the socket file of a unix
\* listener stays.
ServeReturns ==
    /\ mainPC = "Serving"
    /\ sock' = sock
    /\ Ends("Error")
    /\ UNCHANGED <<plaintext, serveFCGI, l, mainErr, pairErr, unlinkOnClose,
                   notify, hook, addrCalled, accepted, signals>>
    /\ UNCHANGED hvars

\* The goroutine reaches s := <-ch and waits.
HookWaits ==
    /\ mainPC # "Exited"
    /\ hook = "started"
    /\ hook' = "receiving"
    /\ UNCHANGED <<plaintext, serveFCGI, mainPC, l, mainErr, pairErr, sock,
                   unlinkOnClose, notify, exit, addrCalled, accepted, signals>>
    /\ UNCHANGED hvars

\* The process is sent an interrupt signal.  Before signal.Notify the
\* signal ends the process; after it the signal is sent on ch without
\* blocking, so it reaches the goroutine if that is waiting at <-ch and is
\* dropped otherwise (ch has no buffer).
Interrupt ==
    /\ mainPC # "Exited"
    /\ signals < MaxSignals
    /\ signals' = signals + 1
    /\ IF ~notify
       THEN Ends("signal") /\ hook' = hook
       ELSE /\ hook' = IF hook = "receiving" THEN "got" ELSE hook
            /\ UNCHANGED <<mainPC, exit>>
    /\ UNCHANGED <<plaintext, serveFCGI, l, mainErr, pairErr, sock,
                   unlinkOnClose, notify, addrCalled, accepted>>
    /\ UNCHANGED hvars

\* The goroutine after s := <-ch: os.Remove(*laddr), which removes the
\* file or fails, and the log.Fatalf of either case.
HookRemoves ==
    /\ mainPC # "Exited"
    /\ hook = "got"
    /\ hook' = "done"
    /\ \E e \in (IF sock = "none" THEN {"ENOENT"} ELSE {"nil", "EACCES"}) :
        IF e = "nil"
        THEN sock' = "none" /\ Ends("Caught and removed socket")
        ELSE sock' = sock /\ Ends("Unable to remove socket")
    /\ UNCHANGED <<plaintext, serveFCGI, l, mainErr, pairErr, unlinkOnClose,
                   notify, addrCalled, accepted, signals>>
    /\ UNCHANGED hvars

(***************************************************************************)
(* Specifications.                                                         *)
(***************************************************************************)
\* The server is serving and no request has arrived.
InitServing == Init /\ MainServing

\* The steps of the handlers when every system call does what it is
\* asked.
Handler(i) ==
    \/ Receive(i)
    \/ MethodCheck(i)
    \/ Lock(i)
    \/ Probe(i)
    \/ Open(i)
    \/ BeginCopy(i)
    \/ CopyChunk(i)
    \/ CopyEOF(i)

\* The steps in which a system call fails.
Fault(i) ==
    \/ ProbeErr(i)
    \/ OpenErr(i)
    \/ CopyReadErr(i)
    \/ CopyWriteErr(i)

\* The server alone in a fresh output directory, no call failing.
NextClosed == \E i \in Reqs : Handler(i)

SpecClosed == InitServing /\ [][NextClosed]_vars

\* The server alone in a fresh output directory, with failing calls.
NextFaults == \E i \in Reqs : Handler(i) \/ Fault(i)

SpecFaults == InitServing /\ [][NextFaults]_vars

\* The server, failing calls, and other processes that create files.
NextWriters ==
    \/ \E i \in Reqs : Handler(i) \/ Fault(i)
    \/ ExtCreate

SpecWriters == InitServing /\ [][NextWriters]_vars

\* The server, failing calls, and other processes that create and remove
\* files.
Next ==
    \/ \E i \in Reqs : Handler(i) \/ Fault(i)
    \/ ExtCreate
    \/ ExtDelete

Spec == InitServing /\ [][Next]_vars

\* main from the choice of the listener on, with failing calls and
\* interrupt signals; no request is handled.
NextMain ==
    \/ ListenPlain
    \/ ListenUnix
    \/ StartHook
    \/ Notify
    \/ LoadPair
    \/ ListenTLS
    \/ CheckErr
    \/ LogAddr
    \/ Accept
    \/ ServeReturns
    \/ HookWaits
    \/ Interrupt
    \/ HookRemoves

\* main begins; no request has arrived.
InitMain == Init /\ MainInit

SpecMain == InitMain /\ [][NextMain]_vars

(***************************************************************************)
(* Properties.                                                             *)
(***************************************************************************)
\* Request i is between LOCK.Lock() and the return of openFile: probing
\* names, or about to create the file.
InCS(i) == pc[i] \in {"Probing", "NameAllocated"}

\* Request i has created a file.
Created(i) == pc[i] \in {"FileOpened", "Streaming", "Completed", "Failed"}

SamePair(i, j) ==
    req[i].remote = req[j].remote /\ req[i].path = req[j].path

IsPrefix(s, t) == Len(s) <= Len(t) /\ s = SubSeq(t, 1, Len(s))

\* C1: with requests running concurrently and other processes creating
\* files, a request only ever holds a handle on the file it created itself,
\* no two requests hold handles on the same name or the same file, and a
\* file holds nothing but bytes of its creator: a file of another process
\* keeps what that process wrote, a file of a request holds a prefix of
\* that request's body.
C1_NoClobber ==
    /\ \A i \in Reqs : f[i] # 0 => f[i] = i /\ name[i] \in DOMAIN dir
                                   /\ dir[name[i]] = i
    /\ \A i, j \in Reqs :
           i # j /\ f[i] # 0 /\ f[j] # 0 => name[i] # name[j] /\ f[i] # f[j]
    /\ \A x \in Files :
           IF x \in Reqs THEN IsPrefix(data[x], req[x].body)
           ELSE data[x] \in {<<>>, ExtData}

\* A request was refused the name on which another request holds a handle,
\* and a file of another process is in the directory.
C1_Witness ==
    \E i, j \in Reqs :
        /\ f[i] # 0 /\ pc[j] = "OpenFailed" /\ err[j] = "EEXIST"
        /\ name[j] = name[i]
        /\ \E nm \in DOMAIN dir : dir[nm] \notin Reqs

\* C4: at most one request at a time is between the start of its probing
\* and its create, and it is the one that holds the mutex; and while a
\* request is there, no step of another request makes an existence check
\* (which would change its num, name or err) or ends its own openFile by
\* creating, or failing to create, a file.
C4_OneInCriticalSection ==
    /\ [](\A i \in Reqs :
             InCS(i) => LOCK = i /\ \A j \in Reqs \ {i} : ~InCS(j))
    /\ [][ \A i, j \in Reqs : (i # j /\ InCS(i)) =>
                /\ num'[j] = num[j] /\ name'[j] = name[j] /\ err'[j] = err[j]
                /\ ~(pc[j] = "NameAllocated" /\ pc'[j] # pc[j]) ]_vars

\* One request has made an existence check and not yet created its file,
\* while another waits for the mutex.
C4_Witness ==
    \E i, j \in Reqs :
        pc[i] = "Probing" /\ num[i] >= 1 /\ pc[j] = "MethodChecked"

\* C5: the mutex is held only by a request inside openFile, never by one
\* that has its file; so whenever a request waits for the mutex and no
\* request is inside openFile, it can take it, whatever the requests that
\* are streaming do.
C5_NoLockWhileStreaming ==
    /\ \A i \in Reqs : LOCK = i => InCS(i)
    /\ \A j \in Reqs :
           pc[j] = "MethodChecked" /\ (\A k \in Reqs : ~InCS(k))
               => CanLock

\* A request is streaming with bytes of its body still to come, and
\* another request has taken the mutex.
C5_Witness ==
    \E i, j \in Reqs :
        pc[i] = "Streaming" /\ Remaining(i) > 0 /\ LOCK = j /\ InCS(j)

\* C6: a completed request's file holds exactly its body, and its response
\* is 200 with the decimal length of the body.
C6_BodySaved ==
    \A i \in Reqs :
        pc[i] = "Completed" =>
            /\ data[i] = req[i].body
            /\ resp[i] = [status |-> StatusOK, body |-> Decimal(Len(req[i].body))]

\* Two requests completed, one with an empty body and one with the longest.
C6_Witness ==
    \E i, j \in Reqs :
        /\ pc[i] = "Completed" /\ req[i].body = <<>>
        /\ pc[j] = "Completed" /\ Len(req[j].body) = MaxBody

AllEnded == \A i \in Reqs : pc[i] \in Terminal

\* C2: when NumReqs POST requests of one remote address and path, run
\* concurrently in a fresh directory, have all ended, the directory holds
\* exactly the names numbered 0 .. NumReqs-1 of that address and path.
C2_SamePairNumbering ==
    (AllEnded /\ \A i \in Reqs : req[i].method = MethodPost /\ SamePair(i, 1))
        => DOMAIN dir = { makeName(req[1], k) : k \in 0..(NumReqs - 1) }

\* C3: of two POST requests of one remote address and path, the second
\* received after the first completed, the second completes too, the two
\* have files of different names, and the first file still holds the first
\* body.
C3_SequentialSamePair ==
    \A i, j \in Reqs :
        ( /\ i \in prior[j] /\ pc[i] = "Completed" /\ SamePair(i, j)
          /\ req[j].method = MethodPost /\ pc[j] \in Terminal )
            => /\ pc[j] = "Completed"
               /\ name[i] # name[j]
               /\ {name[i], name[j]} \subseteq DOMAIN dir
               /\ data[i] = req[i].body

\* C8: when NumReqs concurrent POST requests of pairwise different paths
\* have all ended, with no call failing, each has completed and the
\* directory holds NumReqs files.
C8_DistinctPathsComplete ==
    ( /\ AllEnded
      /\ \A i \in Reqs : req[i].method = MethodPost
      /\ \A i, j \in Reqs : i # j => req[i].path # req[j].path )
        => /\ \A i \in Reqs : pc[i] = "Completed"
           /\ Cardinality(DOMAIN dir) = NumReqs

\* C9: a POST request received after another request ended in an error
\* (rejected, open failed, write failed or client gone), and that meets no
\* failing call of its own, completes.
C9_PostAfterErrorCompletes ==
    \A i, j \in Reqs :
        ( /\ i \in prior[j] /\ pc[i] \in {"Rejected", "OpenFailed", "Failed"}
          /\ req[j].method = MethodPost /\ pc[j] \in Terminal
          /\ pc[j] # "Failed" /\ err[j] # "EACCES" /\ ~statFailed )
            => pc[j] = "Completed"

\* The names request j can probe.
NamesOf(j) == { makeName(req[j], k) : k \in 0..MaxNum }

\* The step in which request j creates its file.
Creates(j) == pc[j] = "NameAllocated" /\ pc'[j] = "FileOpened"

C11_FlatNameRecognized ==
    /\ \A i \in Reqs : name[i] # "" =>
           LET seg == Flatten(TrimSlash(Clean(req[i].path)))
           IN  /\ \A k \in 1..Len(seg) : seg[k] # "/"
               /\ req[i].path = <<"/", "a", "/", "b">> => Str(seg) = "a_b"
               /\ Len(Pad6(num[i])) = NumWidth
               /\ name[i] = req[i].remote \o "_" \o Str(seg) \o "_"
                                \o Pad6(num[i])
    /\ \A i, j \in Reqs :
           ( /\ i # j /\ i \in prior[j] /\ Created(i) /\ SamePair(i, j)
             /\ name[i] \in DOMAIN dir /\ pc[j] = "NameAllocated" )
               => name[j] # name[i]

\* The step in which request j's search ends.
EndsSearch(j) == pc[j] = "Probing" /\ pc'[j] = "NameAllocated"

\* C15: the search goes on only past a name that exists (or whose check
\* failed), it ends on the name it has just found not to exist, so on the
\* smallest number whose name did not exist when checked, whatever the
\* directory holds; and the file the request creates has the name the
\* search ended on.
C15_SmallestFreeNumber ==
    [][ \A j \in Reqs :
            /\ (pc[j] = "Probing" /\ pc'[j] = "Probing" /\ num'[j] # num[j])
                   => name[j] \in DOMAIN dir \/ err'[j] # "nil"
            /\ EndsSearch(j)
                   => /\ err'[j] = "ENOENT" /\ name[j] \notin DOMAIN dir
                      /\ name'[j] = name[j]
            /\ Creates(j)
                   => name[j] \notin DOMAIN dir /\ dir' = dir @@ (name[j] :> j)
      ]_vars

\* The step in which request j's openFile returns.
EndsOpenFile(j) == pc[j] = "NameAllocated" /\ pc'[j] # pc[j]

\* C16: when the name the search ended on exists at the time of the
\* create, the create fails: the directory and the bytes of every file stay
\* as they were, the request ends with 500 "open" and no handle, and the
\* mutex is free; and a request that ended so has written nothing, has no
\* file of its own, and holds neither handle nor mutex.
C16_ExistingNameNotOpened ==
    /\ [][ \A j \in Reqs : (EndsOpenFile(j) /\ name[j] \in DOMAIN dir) =>
               /\ pc'[j] = "OpenFailed"
               /\ resp'[j] = [status |-> StatusInternalServerError,
                              body |-> "open"]
               /\ dir' = dir /\ data' = data
               /\ f'[j] = 0 /\ LOCK' = 0 ]_vars
    /\ [](\A j \in Reqs : (pc[j] = "OpenFailed" /\ err[j] = "EEXIST") =>
               /\ resp[j] = [status |-> StatusInternalServerError,
                             body |-> "open"]
               /\ n[j] = 0 /\ off[j] = 0 /\ f[j] = 0 /\ LOCK # j
               /\ data[j] = <<>> /\ \A nm \in DOMAIN dir : dir[nm] # j)

\* A request was refused a name that another process had created, and the
\* file of that process holds what that process wrote.
C16_Witness ==
    \E j \in Reqs :
        /\ pc[j] = "OpenFailed" /\ err[j] = "EEXIST"
        /\ req[j].body # <<>>
        /\ name[j] \in DOMAIN dir /\ dir[name[j]] \notin Reqs
        /\ data[dir[name[j]]] = ExtData

\* C17: a request whose transfer failed, by a failed read of the body or a
\* failed write to the file, has the response 500 "write" and no handle;
\* its file holds exactly the bytes written before the failure, as many as
\* io.Copy counted, and they are the first bytes of the body; the file is
\* still in the directory under its name unless another process has
\* removed that name; and from then on the request stays as it is and no
\* step adds to its file or takes from it.
C17_PartialFileKept ==
    /\ [](\A i \in Reqs : pc[i] = "Failed" =>
               /\ resp[i] = [status |-> StatusInternalServerError,
                             body |-> "write"]
               /\ f[i] = 0
               /\ Len(data[i]) = n[i]
               /\ data[i] = SubSeq(req[i].body, 1, n[i])
               /\ IsPrefix(data[i], req[i].body)
               /\ name[i] \notin deleted
                      => name[i] \in DOMAIN dir /\ dir[name[i]] = i)
    /\ [][ \A i \in Reqs : pc[i] = "Failed" =>
               pc'[i] = "Failed" /\ data'[i] = data[i]
                   /\ resp'[i] = resp[i] ]_vars

\* A transfer failed after some bytes of the body, not all, were written,
\* and the file is in the directory.
C17_Witness ==
    \E i \in Reqs :
        /\ pc[i] = "Failed"
        /\ 0 < Len(data[i]) /\ Len(data[i]) < Len(req[i].body)
        /\ name[i] \in DOMAIN dir /\ dir[name[i]] = i

\* C18: a request that has ended, rejected, with a failed open, with a
\* failed transfer or completed, holds neither the mutex nor an open file.
C18_EndedHoldsNothing ==
    \A i \in Reqs : pc[i] \in Terminal => LOCK # i /\ f[i] = 0

\* One request ended with a failed open and another with a failed transfer
\* after it had written bytes, and a third party could take the mutex.
C18_Witness ==
    \E i, j \in Reqs :
        /\ pc[i] = "OpenFailed" /\ pc[j] = "Failed" /\ n[j] > 0
        /\ CanLock

\* The state of a request's handler as the state machine of the handler
\* names it: a request whose method was found to be POST stays
\* MethodChecked while it waits for the mutex and while it probes names,
\* until its search has ended on a name.
StageOf(p) == IF p \in {"MethodChecked", "Probing"} THEN "MethodChecked" ELSE p

\* C19 as stated: a request moves only Received -> MethodChecked, then to
\* Rejected, to NameAllocated or to OpenFailed, and NameAllocated ->
\* FileOpened -> Streaming -> Completed or Failed (the method check and the
\* rejection are one step of the handler, Received -> Rejected); nothing
\* leaves a terminal state, so there is one open attempt and one transfer
\* attempt at most; a response is written once, on reaching a terminal
\* state, and is 405 "Invalid method" for Rejected, 500 "open" for
\* OpenFailed, 500 "write" for Failed, 200 with the count for Completed.
C19_TransitionsAsStated ==
    /\ [][ \A i \in Reqs : StageOf(pc'[i]) # StageOf(pc[i]) =>
               <<StageOf(pc[i]), StageOf(pc'[i])>> \in
                   { <<"Idle", "Received">>,
                     <<"Received", "MethodChecked">>,
                     <<"Received", "Rejected">>,
                     <<"MethodChecked", "Rejected">>,
                     <<"MethodChecked", "NameAllocated">>,
                     <<"MethodChecked", "OpenFailed">>,
                     <<"NameAllocated", "FileOpened">>,
                     <<"FileOpened", "Streaming">>,
                     <<"Streaming", "Completed">>,
                     <<"Streaming", "Failed">> } ]_vars
    /\ [][ \A i \in Reqs : resp'[i] # resp[i] =>
               resp[i] = NoResp /\ pc[i] \notin Terminal
                   /\ pc'[i] \in Terminal ]_vars
    /\ [](\A i \in Reqs :
              /\ pc[i] \in Terminal <=> resp[i] # NoResp
              /\ pc[i] = "Rejected" => resp[i] =
                     [status |-> StatusMethodNotAllowed, body |-> "Invalid method"]
              /\ pc[i] = "OpenFailed" => resp[i] =
                     [status |-> StatusInternalServerError, body |-> "open"]
              /\ pc[i] = "Failed" => resp[i] =
                     [status |-> StatusInternalServerError, body |-> "write"]
              /\ pc[i] = "Completed" => resp[i] =
                     [status |-> StatusOK, body |-> Decimal(n[i])])

\* C19, amended: the same, except that OpenFailed is entered from
\* NameAllocated only (the create of the name the search ended on failed)
\* and never from MethodChecked.
C19_OnePathOneResponse ==
    /\ [][ \A i \in Reqs : StageOf(pc'[i]) # StageOf(pc[i]) =>
               <<StageOf(pc[i]), StageOf(pc'[i])>> \in
                   { <<"Idle", "Received">>,
                     <<"Received", "MethodChecked">>,
                     <<"Received", "Rejected">>,
                     <<"MethodChecked", "Rejected">>,
                     <<"MethodChecked", "NameAllocated">>,
                     <<"NameAllocated", "FileOpened">>,
                     <<"NameAllocated", "OpenFailed">>,
                     <<"FileOpened", "Streaming">>,
                     <<"Streaming", "Completed">>,
                     <<"Streaming", "Failed">> } ]_vars
    /\ [][ \A i \in Reqs : resp'[i] # resp[i] =>
               resp[i] = NoResp /\ pc[i] \notin Terminal
                   /\ pc'[i] \in Terminal ]_vars
    /\ [](\A i \in Reqs :
              /\ pc[i] \in Terminal <=> resp[i] # NoResp
              /\ pc[i] = "Rejected" => resp[i] =
                     [status |-> StatusMethodNotAllowed, body |-> "Invalid method"]
              /\ pc[i] = "OpenFailed" => resp[i] =
                     [status |-> StatusInternalServerError, body |-> "open"]
              /\ pc[i] = "Failed" => resp[i] =
                     [status |-> StatusInternalServerError, body |-> "write"]
              /\ pc[i] = "Completed" => resp[i] =
                     [status |-> StatusOK, body |-> Decimal(n[i])])

\* One request ended OpenFailed after its search had ended on a name, and
\* another completed with bytes written.
C19_Witness ==
    \E i, j \in Reqs :
        /\ pc[i] = "OpenFailed" /\ name[i] # "" /\ num[i] >= 1
        /\ pc[j] = "Completed" /\ n[j] > 0

\* C20: the search cannot go on for ever, whatever the checks return: it
\* goes on only past a name that exists, so a request inside openFile has
\* made at most one check more than there are names of its remote address
\* and path in the directory; and the step in which openFile returns frees
\* the mutex.
C20_SearchEnds ==
    /\ [][ \A i \in Reqs :
               (pc[i] = "Probing" /\ pc'[i] = "Probing" /\ num'[i] # num[i])
                   => name[i] \in DOMAIN dir ]_vars
    /\ [](\A i \in Reqs : InCS(i) =>
               num[i] <= Cardinality(DOMAIN dir \cap NamesOf(i)) + 1)
    /\ [][ \A i \in Reqs : EndsOpenFile(i) => LOCK = i /\ LOCK' = 0 ]_vars

\* main was started with -fcgi and without -http: the listener is a unix
\* socket served with FastCGI.
Gateway == serveFCGI /\ ~plaintext

\* C12: when main, started for a unix socket, finds a file at the socket's
\* path, the step in which it listens leaves it with a unix listener bound
\* to a socket file of its own, and main goes on.
C12_StaleSocketRemoved ==
    [][ (Gateway /\ mainPC = "Select" /\ sock = "stale" /\ mainPC' # mainPC
             /\ exit' # "signal")
            => l' = "unix" /\ sock' = "bound" /\ mainPC' = "Listened" ]_vars

\* C13: when a process that listened on a unix socket has ended, by the
\* goroutine that caught an interrupt and removed the socket or by Serve
\* returning, there is no file at the socket's path.
C13_SocketRemovedOnExit ==
    (l = "unix" /\ mainPC = "Exited"
         /\ exit \in {"Caught and removed socket", "Error"})
        => sock = "none"

\* C14: once loading the key pair or listening has failed, in any of the
\* three modes, main is at its check of the error or has ended with the
\* log.Fatalf of that failure (or a signal has ended it first); it has no
\* listener, has called no method of one and has accepted no connection.
C14_StartupFailureFatal ==
    (mainErr # "nil" \/ pairErr # "nil") =>
        /\ mainPC \in {"Check", "Exited"}
        /\ mainPC = "Exited" =>
               exit \in {"Unable to listen", "Unable to load keypair",
                         "Unable to listen on", "signal"}
        /\ l = "nil" /\ ~addrCalled /\ accepted = 0

=============================================================================
